---- MODULE Spec2Model ----
(***************************************************************************)
(* Model of the Daylight Mirror native client                              *)
(* (src/android/app/src/main/cpp/mirror_native.c).                         *)
(*                                                                         *)
(* Three threads run interleaved: the host activity's thread (nativeStart, *)
(* nativeStop), the session thread (decode_thread) and the presenter       *)
(* thread (render_thread).  The server and the allocator are the           *)
(* environment: they choose the packets on the wire, the outcome of        *)
(* connect() and of every malloc().                                        *)
(*                                                                         *)
(* Frame buffers keep their real size (1024*768 bytes by default) and are  *)
(* observed at the byte offsets of ProbeSet; every buffer operation is     *)
(* computed at those offsets the way the code computes it.                 *)
(***************************************************************************)
EXTENDS Integers, Sequences, FiniteSets, TLC

\* ------------------------------------------------------------ constants
DEFAULT_FRAME_W == 1024
DEFAULT_FRAME_H == 768
DEFAULT_PORT == 8888
MAGIC_FRAME_0 == 218
MAGIC_FRAME_1 == 126
MAGIC_CMD_1 == 127
MAGIC_ACK_1 == 122
FLAG_KEYFRAME == 1
CMD_BRIGHTNESS == 1
CMD_WARMTH == 2
CMD_RESOLUTION == 4
\* "+ 256" of g_max_compressed
COMPRESSED_SLACK == 256
\* "payload_len < 256": the tiny-delta skip
TINY_DELTA == 256
\* "new_w <= 4096 && new_h <= 4096"
MAX_DIM == 4096

\* ------------------------------------------------------------ bounds
\* What the environment does in one run: sessions the host starts, sockets
\* the session thread is given and packets the server sends, counted together.
MaxEvents == 4

\* Byte offsets at which buffers are observed: the first byte, the last byte
\* of a 2x2 frame, the first byte after the 64-byte chunks and the last byte
\* of a 17x17 frame, and the last byte of a 1024x768 frame.
ProbeSet == {0, 3, 256, 288, 786431}
Probes(n) == {i \in ProbeSet : i < n}

\* Resolutions the server may announce with CMD_RESOLUTION: 17x17, the
\* largest one admitted, and four with one dimension 0 or 4097.
ResCmds == {<<17, 17>>, <<4096, 4096>>, <<0, 17>>, <<17, 0>>, <<4097, 17>>, <<17, 4097>>}
\* cmd and value bytes of the other commands: brightness, warmth, and a
\* command the client does not know
CmdBytes == {1, 2, 9}
CmdValues == {128}
\* A uint32_t sequence number is the pair <<high, low>> of its 16-bit halves
\* (the checker's integers are 32-bit signed).
Inc32(s) == IF s[2] = 65535 THEN << (s[1] + 1) % 65536, 0 >> ELSE << s[1], s[2] + 1 >>
Leq32(a, b) == a[1] < b[1] \/ (a[1] = b[1] /\ a[2] <= b[2])
\* a - b and a + b on 32-bit unsigned values
Sub32(a, b) ==
    IF a[2] >= b[2] THEN << (a[1] - b[1] + 65536) % 65536, a[2] - b[2] >>
    ELSE << (a[1] - b[1] - 1 + 131072) % 65536, a[2] - b[2] + 65536 >>
Add32(a, b) ==
    << (a[1] + b[1] + ((a[2] + b[2]) \div 65536)) % 65536, (a[2] + b[2]) % 65536 >>
\* "gap < 1000"
GAP_LIMIT == 1000
\* "int gap = (int)(seq - last_seq - 1); if (gap > 0 && gap < 1000)"
GapCounted(gap) == gap[1] = 0 /\ gap[2] > 0 /\ gap[2] < GAP_LIMIT
\* Variant of DroppedAfter: the gap is taken as seq - last_seq.
DroppedAfterOffByOne(dropped, has_last, last, seq) ==
    LET gap == Sub32(seq, last)
    IN  IF has_last /\ seq # Inc32(last) /\ GapCounted(gap)
        THEN dropped + gap[2] ELSE dropped
\* dropped_frames after a frame header with sequence number seq:
\* "if (has_last_seq && seq != last_seq + 1) { ...; dropped_frames += gap; }"
DroppedAfter(dropped, has_last, last, seq) ==
    LET gap == Sub32(Sub32(seq, last), << 0, 1 >>)
    IN  IF has_last /\ seq # Inc32(last) /\ GapCounted(gap)
        THEN dropped + gap[2] ELSE dropped
\* Sequence numbers the server may put in a frame header: 1 and 2^32 - 1.
SeqSet == {<<0, 1>>, <<65535, 65535>>}
\* Decompressed contents the server may send: "A" is the ramp 0x10, 0x20, ...
\* and "B" the mask 0x01, 0x02, 0x00, 0xFF repeated.
Patterns == {"A"}
PatByte(p, i) ==
    IF p = "A" THEN 16 * ((i % 15) + 1)
    ELSE CASE i % 4 = 0 -> 1 [] i % 4 = 1 -> 2 [] i % 4 = 2 -> 0 [] OTHER -> 255

\* ------------------------------------------------------------ buffers
\* A buffer is its size in bytes and its bytes at the probe offsets.
\* A NULL pointer is the buffer of size 0.
Fill(n, v) == [size |-> n, px |-> [i \in Probes(n) |-> v]]
NullBuf == Fill(0, 0)
IsNull(b) == b.size = 0
DataBuf(n, p) == [size |-> n, px |-> [i \in Probes(n) |-> PatByte(p, i)]]

\* memcpy(dst, src, n)
Memcpy(dst, src, n) ==
    [dst EXCEPT !.px = [i \in DOMAIN dst.px |->
        IF i < n /\ i \in DOMAIN src.px THEN src.px[i] ELSE dst.px[i]]]

RECURSIVE BitXor(_, _, _)
BitXor(a, b, k) ==
    IF k = 0 THEN 0
    ELSE (((a % 2) + (b % 2)) % 2) + 2 * BitXor(a \div 2, b \div 2, k - 1)
\* veorq_u8 on one lane, and the scalar ^= of the tail loop
Xor8(a, b) == BitXor(a, b, 8)

\* apply_delta_neon(frame, delta, count): three loops, 64-byte chunks, then
\* 16-byte chunks, then single bytes.
apply_delta_neon(frame, delta, count) ==
    LET end64 == 64 * (count \div 64)
        end16 == end64 + 16 * ((count - end64) \div 16)
    IN  [frame EXCEPT !.px = [i \in DOMAIN frame.px |->
            IF i < end64 THEN Xor8(frame.px[i], delta.px[i])
            ELSE IF i < end16 THEN Xor8(frame.px[i], delta.px[i])
            ELSE IF i < count THEN Xor8(frame.px[i], delta.px[i])
            ELSE frame.px[i]]]

\* ------------------------------------------------------------ LZ4
\* A payload on the wire: its compressed length, the number of bytes it
\* decodes to (-1: not a valid LZ4 block) and the decoded contents.
\* LZ4 cannot expand by more than a factor of 255 and a valid block is never
\* longer than its output plus output/255 + 16 bytes.
Lz4Feasible(len, n) ==
    \/ n = -1
    \/ /\ n >= 1 /\ len >= 1
       /\ n <= 255 * len
       /\ len <= n + (n \div 255) + 16
Payloads ==
    {p \in [len : {0, 5, 291, 4000, 786689}, n : {-1, 289, 786432}, pat : Patterns] :
        /\ Lz4Feasible(p.len, p.n)
        /\ (p.n = -1 => p.len = 0)}
\* LZ4_decompress_safe(src, dst, compressedSize, dstCapacity): the decoded
\* size, or a negative value for a malformed block or one that decodes to
\* more than dstCapacity bytes.
LZ4_decompress_safe(p, dstCapacity) ==
    IF p.len = 0 \/ p.n < 0 \/ p.n > dstCapacity THEN -1 ELSE p.n

\* Variant of AckPacket: the sequence number written most significant byte
\* first.
AckPacketBigEndian(seq) ==
    << MAGIC_FRAME_0, MAGIC_ACK_1, (seq[1] \div 256) % 256, seq[1] % 256,
       (seq[2] \div 256) % 256, seq[2] % 256 >>

\* send_ack's six bytes, and the sequence number the server reads back
AckPacket(seq) ==
    << MAGIC_FRAME_0, MAGIC_ACK_1, seq[2] % 256, (seq[2] \div 256) % 256,
       seq[1] % 256, (seq[1] \div 256) % 256 >>
AckSeq(a) == << a[5] + 256 * a[6], a[3] + 256 * a[4] >>

\* ------------------------------------------------------------ wire format
\* The bytes the server writes: the 11-byte header of a frame packet (the
\* payload follows), a two-byte command, and the RESOLUTION command; all
\* fields little-endian.
EncodeFrameHeader(flags, seq, len) ==
    << MAGIC_FRAME_0, MAGIC_FRAME_1, flags,
       seq[2] % 256, seq[2] \div 256, seq[1] % 256, seq[1] \div 256,
       len % 256, (len \div 256) % 256, (len \div 65536) % 256, len \div 16777216 >>
EncodeCommand(cmd, value) == << MAGIC_FRAME_0, MAGIC_CMD_1, cmd, value >>
EncodeResolution(w, h) ==
    << MAGIC_FRAME_0, MAGIC_CMD_1, CMD_RESOLUTION,
       w % 256, w \div 256, h % 256, h \div 256 >>

\* "res_data[0] | (res_data[1] << 8)": the 16-bit value at b[k], b[k+1]
Le16(b, k) == b[k] + 256 * b[k + 1]
\* seq and payload_len as decode_thread reads them from frame_hdr[1..4] and
\* frame_hdr[5..8] (the sequence here starts at index 1)
HdrSeq(frame_hdr) ==
    << frame_hdr[4] + 256 * frame_hdr[5], frame_hdr[2] + 256 * frame_hdr[3] >>
\* Variant of HdrLen: the length is read most significant byte first.
HdrLenBigEndian(frame_hdr) ==
    frame_hdr[9] + 256 * frame_hdr[8] + 65536 * frame_hdr[7] + 16777216 * frame_hdr[6]
HdrLen(frame_hdr) ==
    frame_hdr[6] + 256 * frame_hdr[7] + 65536 * frame_hdr[8] + 16777216 * frame_hdr[9]

\* ------------------------------------------------------------ state
VARIABLES
    \* globals of mirror_native.c
    g_running, g_window, g_activity, g_sock,
    g_frame_w, g_frame_h, g_pixel_count, g_max_compressed,
    g_current_frame, g_compressed_buf, g_render_frames,
    g_ready_index, g_has_ready_frame, g_ready_seq, g_overwritten_frames,
    \* g_frame_mutex: "free", or the thread holding it ("d", "r")
    mutex,
    \* the three threads' positions
    hpc, dpc, rpc,
    \* locals of nativeStop, decode_thread and render_thread
    hfd, sock, decompress_buf, cur, newres, render_local,
    \* the environment: each socket's state, sockets created, and sessions
    \* started, sockets created and packets sent counted together
    fdState, nconn, nevents,
    \* history: acks written on the current connection, sequence numbers of
    \* the packets reconstructed on it, the callbacks delivered, the last
    \* packet's fate (with the fields the server wrote and those the client
    \* read, until the socket is closed), the connection of the handoff's last
    \* publish and the presenter's last take
    acks, recon, callbacks, lastPkt, firstAfterRes, pub, taken, stopped,
    \* history: the connections on which an accepted frame carried a smaller
    \* sequence number than the one before it, or on which g_ready_seq + 1
    \* wrapped to 0
    disorder,
    \* g_host and g_port, and the size last given to
    \* ANativeWindow_setBuffersGeometry
    g_host, g_port, geometry,
    \* history: whether the last call of nativeStart found the core running
    startIgnored,
    \* render_thread's render_w and render_h; history: whether the resolution
    \* has changed since the last publish
    render_w, render_h, pubStale,
    \* render_thread's gl_disabled, and the hardware context: g_gl_ready and
    \* the size of its texture
    gl_disabled, g_gl_ready, g_gl_tex_w, g_gl_tex_h,
    \* decode_thread's dropped_frames, last_seq and has_last_seq
    dropped_frames, last_seq, has_last_seq

globals == << g_running, g_window, g_activity, g_sock >>
resolution == << g_frame_w, g_frame_h, g_pixel_count, g_max_compressed >>
sessionBufs == << g_current_frame, g_compressed_buf, decompress_buf >>
handoff == << g_render_frames, g_ready_index, g_has_ready_frame, g_ready_seq,
             g_overwritten_frames >>
pcs == << hpc, dpc, rpc >>
gaps == << dropped_frames, last_seq, has_last_seq >>
locals == << hfd, sock, cur, newres, render_local, gaps >>
env == << fdState, nconn, nevents >>
history == << acks, recon, callbacks, lastPkt, firstAfterRes, pub, taken, stopped, disorder >>
target == << g_host, g_port, geometry, startIgnored >>
gl == << gl_disabled, g_gl_ready, g_gl_tex_w, g_gl_tex_h >>
presented == << render_w, render_h, pubStale, gl >>
vars == << globals, resolution, sessionBufs, handoff, mutex, pcs, locals, env, history,
          target, presented >>

NoPkt == [kind |-> "none", key |-> FALSE, len |-> 0, n |-> 0, pat |-> "A",
          read |-> FALSE, fate |-> "none", afterRes |-> FALSE,
          cmd |-> 0, value |-> 0, w |-> 0, h |-> 0, calls |-> << >>,
          wire |-> 0, consumed |-> 0, sent |-> << >>, got |-> << >>]
NoCur == [flags |-> 0, seq |-> <<0, 0>>, payload_len |-> 0]
NoTake == [conn |-> 0, seq |-> <<0, 0>>, nth |-> 0, stale |-> FALSE]

Init ==
    /\ g_running = FALSE /\ g_window = 0 /\ g_activity = 0 /\ g_sock = -1
    /\ g_frame_w = DEFAULT_FRAME_W /\ g_frame_h = DEFAULT_FRAME_H
    /\ g_pixel_count = DEFAULT_FRAME_W * DEFAULT_FRAME_H
    /\ g_max_compressed = DEFAULT_FRAME_W * DEFAULT_FRAME_H + COMPRESSED_SLACK
    /\ g_current_frame = NullBuf /\ g_compressed_buf = 0 /\ decompress_buf = 0
    /\ g_render_frames = << NullBuf, NullBuf >>
    /\ g_ready_index = 0 /\ g_has_ready_frame = FALSE /\ g_ready_seq = <<0, 0>>
    /\ g_overwritten_frames = 0
    /\ mutex = "free"
    /\ hpc = "idle" /\ dpc = "none" /\ rpc = "none"
    /\ hfd = -1 /\ sock = -1 /\ cur = NoCur /\ newres = << 0, 0 >>
    /\ render_local = NullBuf
    /\ fdState = << >> /\ nconn = 0 /\ nevents = 0
    /\ acks = << >> /\ recon = << >> /\ callbacks = << >>
    /\ lastPkt = NoPkt /\ firstAfterRes = FALSE
    /\ pub = 0 /\ taken = NoTake
    /\ stopped = FALSE /\ disorder = {}
    /\ g_host = "127.0.0.1" /\ g_port = DEFAULT_PORT /\ geometry = << 0, 0 >>
    /\ startIgnored = FALSE
    /\ render_w = 0 /\ render_h = 0 /\ pubStale = FALSE
    /\ gl_disabled = FALSE /\ g_gl_ready = FALSE /\ g_gl_tex_w = 0 /\ g_gl_tex_h = 0
    /\ dropped_frames = 0 /\ last_seq = << 0, 0 >> /\ has_last_seq = FALSE

\* pthread_cond_signal / pthread_cond_broadcast on g_frame_cond: the presenter
\* is the only thread that ever waits on it.
Wake(p) == IF p = "r_wait" THEN "r_woken" ELSE p

\* close(fd) and shutdown(fd, SHUT_RDWR) on the table of sockets; on a
\* descriptor that is not open they fail (EBADF) and change nothing.
CloseFd(t, fd) == IF fd \in DOMAIN t THEN [t EXCEPT ![fd] = "closed"] ELSE t
ShutdownFd(t, fd) ==
    IF fd \in DOMAIN t /\ t[fd] = "open" THEN [t EXCEPT ![fd] = "shut"] ELSE t
FdOpen(fd) == fd \in DOMAIN fdState /\ fdState[fd] = "open"

\* ------------------------------------------------------------ host thread
\* The host and port the activity passes to nativeStart: one address when the
\* core is stopped, another one when it calls again while the core runs.
Target(running) ==
    IF running THEN << "10.0.0.3", 9999 >> ELSE << "10.0.0.2", DEFAULT_PORT >>

\* The host activity calls nativeStart(surface, host, port).
StartCall ==
    /\ hpc = "idle" /\ nevents < MaxEvents
    /\ hpc' = "h_start"
    /\ nevents' = nevents + 1
    /\ UNCHANGED << target, presented, globals, resolution, sessionBufs, handoff, mutex,
                    dpc, rpc, locals, fdState, nconn, history >>

\* nativeStart when the core is not running
Start ==
    /\ hpc = "h_start" /\ ~g_running
    /\ g_activity' = 1 /\ g_window' = 1
    /\ geometry' = << g_frame_w, g_frame_h >>
    /\ g_host' = Target(g_running)[1] /\ g_port' = Target(g_running)[2]
    /\ g_running' = TRUE
    /\ rpc' = "r_top" /\ dpc' = "d_alloc"
    /\ hpc' = "idle" /\ stopped' = FALSE /\ startIgnored' = FALSE
    /\ gl_disabled' = FALSE
    /\ UNCHANGED << render_w, render_h, pubStale, g_gl_ready, g_gl_tex_w, g_gl_tex_h,
                    g_sock, resolution, sessionBufs, handoff, mutex, locals, env, acks,
                    recon, callbacks, lastPkt, firstAfterRes, pub, taken, disorder >>

\* Variant of StartWhileRunning: the call starts the core again.
StartWhileRunningRestarts ==
    /\ hpc = "h_start" /\ g_running
    /\ g_activity' = 2 /\ g_window' = 2
    /\ geometry' = << g_frame_w, g_frame_h >>
    /\ g_host' = Target(g_running)[1] /\ g_port' = Target(g_running)[2]
    /\ hpc' = "idle" /\ startIgnored' = TRUE
    /\ UNCHANGED << presented, g_running, g_sock, resolution, sessionBufs, handoff, mutex,
                    dpc, rpc, locals, env, history >>

\* nativeStart when the core is running: "if (g_running) return;"
StartWhileRunning ==
    /\ hpc = "h_start" /\ g_running
    /\ hpc' = "idle" /\ startIgnored' = TRUE
    /\ UNCHANGED << g_host, g_port, geometry, presented, globals, resolution, sessionBufs,
                    handoff, mutex, dpc, rpc, locals, env, history >>

\* nativeStop, line by line.  The host calls it for a session it started.
StopBegin ==
    /\ hpc = "idle" /\ dpc # "none" /\ ~stopped
    /\ g_running' = FALSE
    /\ hpc' = "h_bcast"
    /\ UNCHANGED << target, presented, g_window, g_activity, g_sock, resolution,
                    sessionBufs, handoff, mutex, dpc, rpc, locals, env, history >>

StopBroadcast ==
    /\ hpc = "h_bcast"
    /\ rpc' = Wake(rpc)
    /\ hpc' = "h_sock"
    /\ UNCHANGED << target, presented, globals, resolution, sessionBufs, handoff, mutex,
                    dpc, locals, env, history >>

\* "if (g_sock >= 0) { shutdown(g_sock, SHUT_RDWR);"
StopShutdown ==
    /\ hpc = "h_sock"
    /\ IF g_sock >= 0
       THEN /\ fdState' = ShutdownFd(fdState, g_sock)
            /\ hfd' = g_sock
            /\ hpc' = "h_close"
       ELSE /\ hpc' = "h_join_decode"
            /\ UNCHANGED << fdState, hfd >>
    /\ UNCHANGED << gaps, target, presented, globals, resolution, sessionBufs, handoff,
                    mutex, dpc, rpc, sock, cur, newres, render_local, nconn, nevents,
                    history >>

\* "close(g_sock); g_sock = -1; }"
StopClose ==
    /\ hpc = "h_close"
    /\ fdState' = CloseFd(fdState, hfd)
    /\ g_sock' = -1
    /\ hpc' = "h_join_decode"
    /\ UNCHANGED << target, presented, g_running, g_window, g_activity, resolution,
                    sessionBufs, handoff, mutex, dpc, rpc, locals, nconn, nevents,
                    history >>

\* pthread_join(g_decode_thread)
StopJoinDecode ==
    /\ hpc = "h_join_decode" /\ dpc = "d_done"
    /\ hpc' = "h_join_render"
    /\ UNCHANGED << target, presented, globals, resolution, sessionBufs, handoff, mutex,
                    dpc, rpc, locals, env, history >>

\* pthread_join(g_render_thread)
StopJoinRender ==
    /\ hpc = "h_join_render" /\ rpc = "r_done"
    /\ hpc' = "h_release"
    /\ UNCHANGED << target, presented, globals, resolution, sessionBufs, handoff, mutex,
                    dpc, rpc, locals, env, history >>

\* ANativeWindow_release, DeleteGlobalRef, return
StopRelease ==
    /\ hpc = "h_release"
    /\ g_window' = 0 /\ g_activity' = 0
    /\ hpc' = "idle" /\ stopped' = TRUE
    /\ UNCHANGED << target, presented, g_running, g_sock, resolution, sessionBufs,
                    handoff, mutex, dpc, rpc, locals, env, acks, recon, callbacks,
                    lastPkt, firstAfterRes, pub, taken, disorder >>

\* ------------------------------------------------------------ session thread
\* memset(buf, v, n)
Memset(buf, v, n) ==
    [buf EXCEPT !.px = [i \in DOMAIN buf.px |-> IF i < n THEN v ELSE buf.px[i]]]

\* Variant of publish_frame: the overwritten counter is left alone.
publish_frameNeverCounts(frame, seq) ==
    LET write_index == IF g_ready_index = 0 THEN 1 ELSE 0
    IN  IF IsNull(frame) \/ IsNull(g_render_frames[write_index + 1])
        THEN UNCHANGED << handoff, rpc, pub, pubStale >>
        ELSE /\ g_render_frames' = [g_render_frames EXCEPT ![write_index + 1] =
                                        Memcpy(@, frame, g_pixel_count)]
             /\ g_overwritten_frames' = g_overwritten_frames
             /\ g_ready_index' = write_index
             /\ g_ready_seq' = seq
             /\ g_has_ready_frame' = TRUE
             /\ rpc' = Wake(rpc)
             /\ pub' = sock
             /\ pubStale' = FALSE

\* publish_frame(frame, seq); the caller holds no lock, the body runs under
\* g_frame_mutex.
publish_frame(frame, seq) ==
    LET write_index == IF g_ready_index = 0 THEN 1 ELSE 0
    IN  IF IsNull(frame) \/ IsNull(g_render_frames[write_index + 1])
        THEN UNCHANGED << handoff, rpc, pub, pubStale >>
        ELSE /\ g_render_frames' = [g_render_frames EXCEPT ![write_index + 1] =
                                        Memcpy(@, frame, g_pixel_count)]
             /\ g_overwritten_frames' = IF g_has_ready_frame
                                        THEN g_overwritten_frames + 1
                                        ELSE g_overwritten_frames
             /\ g_ready_index' = write_index
             /\ g_ready_seq' = seq
             /\ g_has_ready_frame' = TRUE
             /\ rpc' = Wake(rpc)
             /\ pub' = sock
             /\ pubStale' = FALSE

\* The five allocations at the top of decode_thread.  failed = 0: all succeed;
\* failed = k: the k-th returns NULL.
DecodeAlloc ==
    /\ dpc = "d_alloc"
    /\ \E failed \in 0..5 :
        /\ g_current_frame' = IF failed = 1 THEN NullBuf ELSE Fill(g_pixel_count, 0)
        /\ g_compressed_buf' = IF failed = 2 THEN 0 ELSE g_max_compressed
        /\ decompress_buf' = IF failed = 3 THEN 0 ELSE g_pixel_count
        /\ g_render_frames' =
              << IF failed = 4 THEN NullBuf
                 ELSE Fill(g_pixel_count, IF failed = 0 THEN 255 ELSE 0),
                 IF failed = 5 THEN NullBuf
                 ELSE Fill(g_pixel_count, IF failed = 0 THEN 255 ELSE 0) >>
        /\ dpc' = IF failed = 0 THEN "d_outer" ELSE "d_cleanup"
    /\ UNCHANGED << g_overwritten_frames, target, presented, globals, resolution,
                    g_ready_index, g_has_ready_frame, g_ready_seq, mutex, hpc, rpc,
                    locals, env, history >>

\* "while (g_running) { int sock = socket(...);"
DecodeOuter ==
    /\ dpc = "d_outer"
    /\ IF ~g_running
       THEN /\ dpc' = "d_cleanup"
            /\ UNCHANGED << sock, fdState, nconn, nevents >>
       ELSE \/ /\ nevents < MaxEvents
               /\ nevents' = nevents + 1
               /\ nconn' = nconn + 1
               /\ sock' = nconn + 1
               /\ fdState' = Append(fdState, "open")
               /\ dpc' = "d_connect"
            \/ /\ sock' = -1
               /\ dpc' = "d_sleep"
               /\ UNCHANGED << fdState, nconn, nevents >>
    /\ UNCHANGED << gaps, target, presented, globals, resolution, sessionBufs, handoff,
                    mutex, hpc, rpc, hfd, cur, newres, render_local, history >>

\* Variant of ConnectFails: the failure is reported to the host as a
\* disconnection.
ConnectFailsNotifies ==
    /\ dpc = "d_connect"
    /\ fdState' = CloseFd(fdState, sock)
    /\ callbacks' = Append(callbacks, FALSE)
    /\ dpc' = "d_sleep"
    /\ UNCHANGED << target, presented, globals, resolution, sessionBufs, handoff, mutex,
                    hpc, rpc, locals, nconn, nevents, acks, recon, lastPkt, firstAfterRes,
                    pub, taken, stopped, disorder >>

\* connect() fails: close(sock), sleep(1), continue
ConnectFails ==
    /\ dpc = "d_connect"
    /\ fdState' = CloseFd(fdState, sock)
    /\ dpc' = "d_sleep"
    /\ UNCHANGED << target, presented, globals, resolution, sessionBufs, handoff, mutex,
                    hpc, rpc, locals, nconn, nevents, history >>

\* connect() succeeds: g_sock = sock, notify_connection_state(1), the
\* connection's locals are initialised
ConnectSucceeds ==
    /\ dpc = "d_connect"
    /\ g_sock' = sock
    /\ callbacks' = IF g_activity # 0 THEN Append(callbacks, TRUE) ELSE callbacks
    /\ acks' = << >> /\ recon' = << >> /\ lastPkt' = NoPkt /\ cur' = NoCur
    /\ dropped_frames' = 0 /\ last_seq' = << 0, 0 >> /\ has_last_seq' = FALSE
    /\ dpc' = "d_inner"
    /\ UNCHANGED << target, presented, g_running, g_window, g_activity, resolution,
                    sessionBufs, handoff, mutex, hpc, rpc, hfd, sock, newres,
                    render_local, env, firstAfterRes, pub, taken, stopped, disorder >>

\* the inner "while (g_running)"
DecodeInner ==
    /\ dpc = "d_inner"
    /\ dpc' = IF g_running THEN "d_read" ELSE "d_close"
    /\ lastPkt' = NoPkt
    /\ UNCHANGED << target, presented, globals, resolution, sessionBufs, handoff, mutex,
                    hpc, rpc, locals, env, acks, recon, callbacks, firstAfterRes, pub,
                    taken, stopped, disorder >>

\* The connection ends at the read of the two magic bytes.
EndAtRead(why) ==
    /\ lastPkt' = [NoPkt EXCEPT !.kind = why]
    /\ dpc' = "d_close"
    /\ UNCHANGED << target, presented, globals, resolution, sessionBufs, handoff, mutex,
                    hpc, rpc, locals, fdState, nconn, acks, recon, callbacks,
                    firstAfterRes, pub, taken, stopped, disorder >>

\* recv on a socket that was shut down or closed returns 0 or -1
RecvUnblocked ==
    /\ dpc = "d_read" /\ ~FdOpen(sock)
    /\ EndAtRead("eof")
    /\ UNCHANGED nevents

\* the peer closes the connection: recv returns 0
PeerCloses ==
    /\ dpc = "d_read" /\ FdOpen(sock)
    /\ EndAtRead("eof")
    /\ UNCHANGED nevents

\* magic[0] != 0xDA, or magic[1] neither 0x7E nor 0x7F
ReadBadMagic ==
    /\ dpc = "d_read" /\ FdOpen(sock) /\ nevents < MaxEvents
    /\ \E magic \in {<< 0, MAGIC_FRAME_1 >>, << MAGIC_FRAME_0, MAGIC_ACK_1 >>} :
        /\ magic[1] # MAGIC_FRAME_0 \/ magic[2] \notin {MAGIC_CMD_1, MAGIC_FRAME_1}
        /\ EndAtRead(IF magic[1] # MAGIC_FRAME_0 THEN "badmagic" ELSE "unknown")
    /\ nevents' = nevents + 1

\* Variant of HostCalls: every command but brightness is taken for warmth.
HostCallsWarmthByDefault(cmd, value) ==
    IF g_activity = 0 THEN << >>
    ELSE IF cmd = CMD_BRIGHTNESS THEN << << "setBrightness", value >> >>
    ELSE << << "setWarmth", value >> >>

\* The calls made on the host activity for a command other than
\* CMD_RESOLUTION: "if (g_jvm && g_activity) { if (cmd == CMD_BRIGHTNESS) ...
\* else if (cmd == 0x02) ... }"
HostCalls(cmd, value) ==
    IF g_activity = 0 THEN << >>
    ELSE IF cmd = CMD_BRIGHTNESS THEN << << "setBrightness", value >> >>
    ELSE IF cmd = CMD_WARMTH THEN << << "setWarmth", value >> >>
    ELSE << >>

\* A command other than CMD_RESOLUTION: one value byte is read, the host's
\* setBrightness or setWarmth is called for 0x01 and 0x02.
ReadCommand ==
    /\ dpc = "d_read" /\ FdOpen(sock) /\ nevents < MaxEvents
    /\ nevents' = nevents + 1
    /\ \E c \in CmdBytes, v \in CmdValues :
        LET wire == EncodeCommand(c, v)
            magic == SubSeq(wire, 1, 2)
            cmd == wire[3]
            value == wire[4]
        IN  /\ magic[1] = MAGIC_FRAME_0 /\ magic[2] = MAGIC_CMD_1
            /\ cmd # CMD_RESOLUTION
            /\ lastPkt' = [NoPkt EXCEPT !.kind = "cmd", !.cmd = cmd, !.value = value,
                                        !.calls = HostCalls(cmd, value),
                                        !.wire = Len(wire), !.consumed = 2 + 1 + 1,
                                        !.sent = << c, v >>, !.got = << cmd, value >>]
    /\ dpc' = "d_inner"
    /\ UNCHANGED << target, presented, globals, resolution, sessionBufs, handoff, mutex,
                    hpc, rpc, locals, fdState, nconn, acks, recon, callbacks,
                    firstAfterRes, pub, taken, stopped, disorder >>

\* Variant of ValidResolution: the upper bound on the height is not checked.
ValidResolutionNoHeightBound(new_w, new_h) ==
    new_w > 0 /\ new_h > 0 /\ new_w <= MAX_DIM

\* "if (new_w > 0 && new_h > 0 && new_w <= 4096 && new_h <= 4096)"
ValidResolution(new_w, new_h) ==
    new_w > 0 /\ new_h > 0 /\ new_w <= MAX_DIM /\ new_h <= MAX_DIM

\* Variant of AllAllocated: new_render1 is not tested.
AllAllocatedButLast(failed) == failed \in {0, 5}

\* "if (!new_current || !new_compressed || !new_decompress || !new_render0 ||
\*      !new_render1) { free(...); return 0; }", negated.  failed = 0: the five
\* allocations succeeded; failed = k: the k-th returned NULL.
AllAllocated(failed) == failed = 0

\* CMD_RESOLUTION: the four bytes are read and checked, and the five
\* allocations of reallocate_buffers are made; if they all succeed the
\* thread goes on to lock g_frame_mutex, otherwise what was allocated is
\* freed and the loop continues.
ReadResolution ==
    /\ dpc = "d_read" /\ FdOpen(sock) /\ nevents < MaxEvents
    /\ nevents' = nevents + 1
    /\ \E r \in ResCmds, failed \in 0..5 :
        LET wire == EncodeResolution(r[1], r[2])
            alloc_ok == AllAllocated(failed)
            magic == SubSeq(wire, 1, 2)
            cmd == wire[3]
            res_data == SubSeq(wire, 4, 7)
            new_w == Le16(res_data, 1)
            new_h == Le16(res_data, 3)
        IN  /\ magic[1] = MAGIC_FRAME_0 /\ magic[2] = MAGIC_CMD_1
            /\ cmd = CMD_RESOLUTION
            /\ IF ValidResolution(new_w, new_h) /\ alloc_ok
               THEN newres' = << new_w, new_h >> /\ dpc' = "d_realloc"
               ELSE newres' = newres /\ dpc' = "d_inner"
            /\ lastPkt' = [NoPkt EXCEPT !.kind = "res", !.w = new_w, !.h = new_h,
                                        !.fate = IF ~ValidResolution(new_w, new_h)
                                                 THEN "invalid"
                                                 ELSE IF failed = 0 THEN "accepted"
                                                 ELSE "nomem",
                                        !.wire = Len(wire), !.consumed = 2 + 1 + 4,
                                        !.sent = << CMD_RESOLUTION, r[1], r[2] >>,
                                        !.got = << cmd, new_w, new_h >>]
    /\ UNCHANGED << gaps, target, presented, globals, resolution, sessionBufs, handoff,
                    mutex, hpc, rpc, hfd, sock, cur, render_local, fdState, nconn, acks,
                    recon, callbacks, firstAfterRes, pub, taken, stopped, disorder >>

\* Variant of DecodeRealloc: g_has_ready_frame is not reset.
DecodeReallocKeepsReady ==
    /\ dpc = "d_realloc" /\ mutex = "free"
    /\ LET new_pixels == newres[1] * newres[2]
           new_max_compressed == new_pixels + COMPRESSED_SLACK
       IN  /\ g_current_frame' = Fill(new_pixels, 0)
           /\ g_compressed_buf' = new_max_compressed
           /\ decompress_buf' = new_pixels
           /\ g_render_frames' = << Fill(new_pixels, 255), Fill(new_pixels, 255) >>
           /\ g_ready_index' = 0
           /\ g_frame_w' = newres[1]
           /\ g_frame_h' = newres[2]
           /\ g_pixel_count' = new_pixels
           /\ g_max_compressed' = new_max_compressed
    /\ geometry' = IF g_window # 0 THEN newres ELSE geometry
    /\ firstAfterRes' = TRUE /\ pubStale' = TRUE
    /\ taken' = [taken EXCEPT !.stale = (rpc \in {"r_present", "r_blit"})]
    /\ dpc' = "d_inner"
    /\ UNCHANGED << gl, g_overwritten_frames, g_host, g_port, startIgnored, render_w,
                    render_h, globals, g_has_ready_frame, g_ready_seq, mutex, hpc, rpc,
                    locals, env, acks, recon, callbacks, lastPkt, pub, stopped,
                    disorder >>

\* Variant of DecodeRealloc: the caller's decompress_buf is not replaced.
DecodeReallocKeepsScratch ==
    /\ dpc = "d_realloc" /\ mutex = "free"
    /\ LET new_pixels == newres[1] * newres[2]
           new_max_compressed == new_pixels + COMPRESSED_SLACK
       IN  /\ g_current_frame' = Fill(new_pixels, 0)
           /\ g_compressed_buf' = new_max_compressed
           /\ decompress_buf' = decompress_buf
           /\ g_render_frames' = << Fill(new_pixels, 255), Fill(new_pixels, 255) >>
           /\ g_ready_index' = 0
           /\ g_has_ready_frame' = FALSE
           /\ g_frame_w' = newres[1]
           /\ g_frame_h' = newres[2]
           /\ g_pixel_count' = new_pixels
           /\ g_max_compressed' = new_max_compressed
    /\ geometry' = IF g_window # 0 THEN newres ELSE geometry
    /\ firstAfterRes' = TRUE /\ pubStale' = TRUE
    /\ taken' = [taken EXCEPT !.stale = (rpc \in {"r_present", "r_blit"})]
    /\ dpc' = "d_inner"
    /\ UNCHANGED << gl, g_overwritten_frames, g_host, g_port, startIgnored, render_w,
                    render_h, globals, g_ready_seq, mutex, hpc, rpc, locals, env, acks,
                    recon, callbacks, lastPkt, pub, stopped, disorder >>

\* Variant of DecodeRealloc: g_max_compressed keeps its old value.
DecodeReallocStaleMax ==
    /\ dpc = "d_realloc" /\ mutex = "free"
    /\ LET new_pixels == newres[1] * newres[2]
           new_max_compressed == new_pixels + COMPRESSED_SLACK
       IN  /\ g_current_frame' = Fill(new_pixels, 0)
           /\ g_compressed_buf' = new_max_compressed
           /\ decompress_buf' = new_pixels
           /\ g_render_frames' = << Fill(new_pixels, 255), Fill(new_pixels, 255) >>
           /\ g_ready_index' = 0
           /\ g_has_ready_frame' = FALSE
           /\ g_frame_w' = newres[1]
           /\ g_frame_h' = newres[2]
           /\ g_pixel_count' = new_pixels
           /\ g_max_compressed' = g_max_compressed
    /\ geometry' = IF g_window # 0 THEN newres ELSE geometry
    /\ firstAfterRes' = TRUE /\ pubStale' = TRUE
    /\ taken' = [taken EXCEPT !.stale = (rpc \in {"r_present", "r_blit"})]
    /\ dpc' = "d_inner"
    /\ UNCHANGED << gl, g_overwritten_frames, g_host, g_port, startIgnored, render_w,
                    render_h, globals, g_ready_seq, mutex, hpc, rpc, locals, env, acks,
                    recon, callbacks, lastPkt, pub, stopped, disorder >>

\* reallocate_buffers from pthread_mutex_lock to pthread_mutex_unlock, then
\* ANativeWindow_setBuffersGeometry
DecodeRealloc ==
    /\ dpc = "d_realloc" /\ mutex = "free"
    /\ LET new_pixels == newres[1] * newres[2]
           new_max_compressed == new_pixels + COMPRESSED_SLACK
       IN  /\ g_current_frame' = Fill(new_pixels, 0)
           /\ g_compressed_buf' = new_max_compressed
           /\ decompress_buf' = new_pixels
           /\ g_render_frames' = << Fill(new_pixels, 255), Fill(new_pixels, 255) >>
           /\ g_ready_index' = 0
           /\ g_has_ready_frame' = FALSE
           /\ g_frame_w' = newres[1]
           /\ g_frame_h' = newres[2]
           /\ g_pixel_count' = new_pixels
           /\ g_max_compressed' = new_max_compressed
    /\ geometry' = IF g_window # 0 THEN newres ELSE geometry
    /\ firstAfterRes' = TRUE /\ pubStale' = TRUE
    /\ taken' = [taken EXCEPT !.stale = (rpc \in {"r_present", "r_blit"})]
    /\ dpc' = "d_inner"
    /\ UNCHANGED << gl, g_overwritten_frames, g_host, g_port, startIgnored, render_w,
                    render_h, globals, g_ready_seq, mutex, hpc, rpc, locals, env, acks,
                    recon, callbacks, lastPkt, pub, stopped, disorder >>

\* "if (payload_len > g_max_compressed)"
PayloadTooLarge(payload_len, max_compressed) == payload_len > max_compressed

\* Variant of FrameFate: every decompression mismatch ends the connection.
FrameFateMismatchBreaks(flags, p) ==
    IF PayloadTooLarge(p.len, g_max_compressed) THEN "oversize"
    ELSE IF LZ4_decompress_safe(p, g_pixel_count) # g_pixel_count THEN "badkf"
    ELSE IF (flags % 2) = FLAG_KEYFRAME THEN "key"
    ELSE IF p.len < TINY_DELTA THEN "skip"
    ELSE "delta"

\* Variant of FrameFate: every decompression mismatch is skipped with continue.
FrameFateMismatchContinues(flags, p) ==
    IF PayloadTooLarge(p.len, g_max_compressed) THEN "oversize"
    ELSE IF LZ4_decompress_safe(p, g_pixel_count) # g_pixel_count THEN "discard"
    ELSE IF (flags % 2) = FLAG_KEYFRAME THEN "key"
    ELSE IF p.len < TINY_DELTA THEN "skip"
    ELSE "delta"

\* What the code does with a frame packet whose header has been read:
\*   oversize  the length check fails, the payload is not read, break
\*   badkf     a keyframe that does not decompress to g_pixel_count, break
\*   discard   a delta that does not decompress to g_pixel_count, continue
\*   key       memcpy of the keyframe
\*   skip      a delta shorter than 256 compressed bytes, not applied
\*   delta     apply_delta_neon
FrameFate(flags, p) ==
    IF PayloadTooLarge(p.len, g_max_compressed) THEN "oversize"
    ELSE IF LZ4_decompress_safe(p, g_pixel_count) # g_pixel_count
         THEN (IF (flags % 2) = FLAG_KEYFRAME THEN "badkf" ELSE "discard")
    ELSE IF (flags % 2) = FLAG_KEYFRAME THEN "key"
    ELSE IF p.len < TINY_DELTA THEN "skip"
    ELSE "delta"

\* Variant of Reconstruct: a keyframe is XORed into the frame like a delta.
ReconstructKeyframeXor(fate, frame, p, count) ==
    CASE fate = "key" -> apply_delta_neon(frame, DataBuf(p.n, p.pat), count)
      [] fate = "delta" -> apply_delta_neon(frame, DataBuf(p.n, p.pat), count)
      [] OTHER -> frame

\* g_current_frame after the packet
Reconstruct(fate, frame, p, count) ==
    CASE fate = "key" -> Memcpy(frame, DataBuf(p.n, p.pat), count)
      [] fate = "delta" -> apply_delta_neon(frame, DataBuf(p.n, p.pat), count)
      [] OTHER -> frame

\* A frame packet: header, length check, payload, decompression,
\* reconstruction; the next steps are send_ack and publish_frame.
ReadFrame ==
    /\ dpc = "d_read" /\ FdOpen(sock) /\ nevents < MaxEvents
    /\ nevents' = nevents + 1
    /\ \E f \in {0, 1}, s \in SeqSet, sent \in Payloads :
        LET wire == EncodeFrameHeader(f, s, sent.len)
            magic == SubSeq(wire, 1, 2)
            frame_hdr == SubSeq(wire, 3, 11)
            flags == frame_hdr[1]
            seq == HdrSeq(frame_hdr)
            payload_len == HdrLen(frame_hdr)
            p == [sent EXCEPT !.len = payload_len]
            fate == FrameFate(flags, p)
            accepted == fate \in {"key", "skip", "delta"}
            read == ~PayloadTooLarge(payload_len, g_max_compressed)
        IN  /\ magic[1] = MAGIC_FRAME_0 /\ magic[2] = MAGIC_FRAME_1
            /\ cur' = IF accepted THEN [flags |-> flags, seq |-> seq, payload_len |-> p.len]
                      ELSE NoCur
            /\ g_current_frame' = Reconstruct(fate, g_current_frame, p, g_pixel_count)
            /\ lastPkt' = [NoPkt EXCEPT !.kind = "frame",
                                        !.key = (flags % 2) = FLAG_KEYFRAME,
                                        !.len = p.len, !.n = p.n,
                                        !.pat = IF accepted THEN p.pat ELSE "A",
                                        !.read = read,
                                        !.fate = fate, !.afterRes = firstAfterRes,
                                        !.wire = Len(wire) + sent.len,
                                        !.consumed = 2 + 9 + (IF read THEN payload_len ELSE 0),
                                        !.sent = << f, s, sent.len >>,
                                        !.got = << flags, seq, payload_len >>]
            /\ dropped_frames' = DroppedAfter(dropped_frames, has_last_seq, last_seq, seq)
            /\ last_seq' = seq /\ has_last_seq' = TRUE
            /\ recon' = IF accepted THEN Append(recon, seq)
                        ELSE recon
            /\ disorder' = IF accepted /\ recon # << >>
                                /\ ~Leq32(recon[Len(recon)], seq)
                             THEN disorder \cup {sock} ELSE disorder
            /\ dpc' = CASE fate \in {"oversize", "badkf"} -> "d_close"
                        [] fate = "discard" -> "d_inner"
                        [] OTHER -> "d_ack"
    /\ firstAfterRes' = FALSE
    /\ UNCHANGED << target, presented, globals, resolution, g_compressed_buf,
                    decompress_buf, handoff, mutex, hpc, rpc, hfd, sock, newres,
                    render_local, fdState, nconn, acks, callbacks, pub, taken, stopped >>

\* send_ack(sock, seq): send() of the six bytes, its result ignored.  It
\* writes them unless the socket has been shut down or closed, or the peer
\* has reset the connection.
send_ack(fd, seq) ==
    \/ /\ FdOpen(fd)
       /\ acks' = Append(acks, AckPacket(seq))
       /\ UNCHANGED fdState
    \/ /\ ~FdOpen(fd)
       /\ UNCHANGED << acks, fdState >>
    \/ /\ FdOpen(fd)
       /\ fdState' = ShutdownFd(fdState, fd)
       /\ UNCHANGED acks

\* Variant of DecodeAck: the frame goes to publish_frame without send_ack.
DecodeAckNotSent ==
    /\ dpc = "d_ack"
    /\ dpc' = "d_publish"
    /\ UNCHANGED << target, presented, globals, resolution, sessionBufs, handoff, mutex,
                    hpc, rpc, locals, env, history >>

\* "send_ack(sock, seq);"
DecodeAck ==
    /\ dpc = "d_ack"
    /\ send_ack(sock, cur.seq)
    /\ dpc' = "d_publish"
    /\ UNCHANGED << target, presented, globals, resolution, sessionBufs, handoff, mutex,
                    hpc, rpc, locals, nconn, nevents, recon, callbacks, lastPkt,
                    firstAfterRes, pub, taken, stopped, disorder >>

\* "publish_frame(g_current_frame, seq);", then the test
\* "if (elapsed >= 5.0 && stat_frames > 0)" of the statistics window
DecodePublish ==
    /\ dpc = "d_publish" /\ mutex = "free"
    /\ publish_frame(g_current_frame, cur.seq)
    /\ cur' = NoCur
    /\ \E elapsed \in BOOLEAN : dpc' = IF elapsed THEN "d_stats" ELSE "d_inner"
    /\ UNCHANGED << gaps, gl, target, render_w, render_h, globals, resolution,
                    sessionBufs, mutex, hpc, hfd, sock, newres, render_local, env, acks,
                    recon, callbacks, lastPkt, firstAfterRes, taken, stopped, disorder >>

\* The statistics window ends: under the mutex the presenter's sums and
\* g_overwritten_frames are read and reset.
DecodeStats ==
    /\ dpc = "d_stats" /\ mutex = "free"
    /\ g_overwritten_frames' = 0
    /\ dpc' = "d_inner"
    /\ UNCHANGED << target, presented, globals, resolution, sessionBufs, g_render_frames,
                    g_ready_index, g_has_ready_frame, g_ready_seq, mutex, hpc, rpc,
                    locals, env, history >>

\* Variant of DecodeClose: g_sock is forgotten without close().
DecodeCloseLeaks ==
    /\ dpc = "d_close"
    /\ g_sock' = -1
    /\ dpc' = "d_white"
    /\ lastPkt' = [lastPkt EXCEPT !.sent = << >>, !.got = << >>]
    /\ UNCHANGED << target, presented, g_running, g_window, g_activity, resolution,
                    sessionBufs, handoff, mutex, hpc, rpc, locals, env, acks, recon,
                    callbacks, firstAfterRes, pub, taken, stopped, disorder >>

\* after the inner loop: "if (g_sock >= 0) { close(g_sock); g_sock = -1; }"
DecodeClose ==
    /\ dpc = "d_close"
    /\ IF g_sock >= 0
       THEN fdState' = CloseFd(fdState, g_sock) /\ g_sock' = -1
       ELSE UNCHANGED << fdState, g_sock >>
    /\ dpc' = "d_white"
    /\ lastPkt' = [lastPkt EXCEPT !.sent = << >>, !.got = << >>]
    /\ UNCHANGED << target, presented, g_running, g_window, g_activity, resolution,
                    sessionBufs, handoff, mutex, hpc, rpc, locals, nconn, nevents, acks,
                    recon, callbacks, firstAfterRes, pub, taken, stopped, disorder >>

\* Variant of DecodeWhite: the white frame is published with sequence 0.
DecodeWhiteSeqZero ==
    /\ dpc = "d_white" /\ mutex = "free"
    /\ IF IsNull(g_current_frame)
       THEN UNCHANGED << g_current_frame, handoff, rpc, pub, pubStale >>
       ELSE /\ g_current_frame' = Memset(g_current_frame, 255, g_pixel_count)
            /\ publish_frame(g_current_frame', << 0, 0 >>)
    /\ disorder' = IF g_ready_seq = << 65535, 65535 >> THEN disorder \cup {sock}
                     ELSE disorder
    /\ dpc' = "d_notify"
    /\ UNCHANGED << gl, target, render_w, render_h, globals, resolution, g_compressed_buf,
                    decompress_buf, mutex, hpc, locals, env, acks, recon, callbacks,
                    lastPkt, firstAfterRes, taken, stopped >>

\* Variant of DecodeWhite: the frame is published before it is filled.
DecodeWhitePublishesFirst ==
    /\ dpc = "d_white" /\ mutex = "free"
    /\ IF IsNull(g_current_frame)
       THEN UNCHANGED << g_current_frame, handoff, rpc, pub, pubStale >>
       ELSE /\ publish_frame(g_current_frame, Inc32(g_ready_seq))
            /\ g_current_frame' = Memset(g_current_frame, 255, g_pixel_count)
    /\ disorder' = IF g_ready_seq = << 65535, 65535 >> THEN disorder \cup {sock}
                     ELSE disorder
    /\ dpc' = "d_notify"
    /\ UNCHANGED << gl, target, render_w, render_h, globals, resolution, g_compressed_buf,
                    decompress_buf, mutex, hpc, locals, env, acks, recon, callbacks,
                    lastPkt, firstAfterRes, taken, stopped >>

\* "memset(g_current_frame, 0xFF, g_pixel_count);
\*  publish_frame(g_current_frame, g_ready_seq + 1);"
DecodeWhite ==
    /\ dpc = "d_white" /\ mutex = "free"
    /\ IF IsNull(g_current_frame)
       THEN UNCHANGED << g_current_frame, handoff, rpc, pub, pubStale >>
       ELSE /\ g_current_frame' = Memset(g_current_frame, 255, g_pixel_count)
            /\ publish_frame(g_current_frame', Inc32(g_ready_seq))
    /\ disorder' = IF g_ready_seq = << 65535, 65535 >> THEN disorder \cup {sock}
                     ELSE disorder
    /\ dpc' = "d_notify"
    /\ UNCHANGED << gl, target, render_w, render_h, globals, resolution, g_compressed_buf,
                    decompress_buf, mutex, hpc, locals, env, acks, recon, callbacks,
                    lastPkt, firstAfterRes, taken, stopped >>

\* notify_connection_state(0)
DecodeNotify ==
    /\ dpc = "d_notify"
    /\ callbacks' = IF g_activity # 0 THEN Append(callbacks, FALSE) ELSE callbacks
    /\ dpc' = "d_sleep"
    /\ UNCHANGED << target, presented, globals, resolution, sessionBufs, handoff, mutex,
                    hpc, rpc, locals, env, acks, recon, lastPkt, firstAfterRes, pub,
                    taken, stopped, disorder >>

\* Variant of DecodeSleep: the thread gives up after the sleep.
DecodeSleepGivesUp ==
    /\ dpc = "d_sleep"
    /\ dpc' = "d_cleanup"
    /\ UNCHANGED << target, presented, globals, resolution, sessionBufs, handoff, mutex,
                    hpc, rpc, locals, env, history >>

\* sleep(1)
DecodeSleep ==
    /\ dpc = "d_sleep"
    /\ dpc' = "d_outer"
    /\ UNCHANGED << target, presented, globals, resolution, sessionBufs, handoff, mutex,
                    hpc, rpc, locals, env, history >>

\* cleanup: the socket and the frees, without the lock
DecodeCleanup ==
    /\ dpc = "d_cleanup"
    /\ IF g_sock >= 0
       THEN fdState' = CloseFd(fdState, g_sock) /\ g_sock' = -1
       ELSE UNCHANGED << fdState, g_sock >>
    /\ g_current_frame' = NullBuf /\ g_compressed_buf' = 0 /\ decompress_buf' = 0
    /\ g_render_frames' = << NullBuf, NullBuf >>
    /\ dpc' = "d_unready"
    /\ UNCHANGED << g_overwritten_frames, target, presented, g_running, g_window,
                    g_activity, resolution, g_ready_index, g_has_ready_frame, g_ready_seq,
                    mutex, hpc, rpc, locals, nconn, nevents, history >>

\* "pthread_mutex_lock; g_has_ready_frame = 0; pthread_mutex_unlock"
DecodeUnready ==
    /\ dpc = "d_unready" /\ mutex = "free"
    /\ g_has_ready_frame' = FALSE
    /\ dpc' = "d_signal"
    /\ UNCHANGED << g_overwritten_frames, target, presented, globals, resolution,
                    sessionBufs, g_render_frames, g_ready_index, g_ready_seq, mutex, hpc,
                    rpc, locals, env, history >>

\* "pthread_cond_signal(&g_frame_cond); return NULL;"
DecodeSignal ==
    /\ dpc = "d_signal"
    /\ rpc' = Wake(rpc)
    /\ dpc' = "d_done"
    /\ UNCHANGED << target, presented, globals, resolution, sessionBufs, handoff, mutex,
                    hpc, locals, env, history >>

\* ------------------------------------------------------------ presenter thread
\* "while (g_running) { pthread_mutex_lock(&g_frame_mutex);", and the
\* re-acquisition of the mutex by a woken pthread_cond_wait
RenderLock ==
    /\ rpc \in {"r_top", "r_woken"}
    /\ IF rpc = "r_top" /\ ~g_running
       THEN rpc' = "r_exit" /\ UNCHANGED mutex
       ELSE mutex = "free" /\ mutex' = "r" /\ rpc' = "r_check"
    /\ UNCHANGED << target, presented, globals, resolution, sessionBufs, handoff, hpc,
                    dpc, locals, env, history >>

\* "while (g_running && !g_has_ready_frame)" and "if (!g_running)", evaluated
\* with the mutex held
RenderCheck ==
    /\ rpc = "r_check"
    /\ IF g_running /\ ~g_has_ready_frame
       THEN rpc' = "r_prewait" /\ UNCHANGED mutex
       ELSE IF ~g_running
            THEN rpc' = "r_exit" /\ mutex' = "free"
            ELSE rpc' = "r_copy" /\ UNCHANGED mutex
    /\ UNCHANGED << target, presented, globals, resolution, sessionBufs, handoff, hpc,
                    dpc, locals, env, history >>

\* pthread_cond_wait: releases the mutex and blocks
RenderWait ==
    /\ rpc = "r_prewait"
    /\ mutex' = "free"
    /\ rpc' = "r_wait"
    /\ UNCHANGED << target, presented, globals, resolution, sessionBufs, handoff, hpc,
                    dpc, locals, env, history >>

\* a spurious wakeup of pthread_cond_wait
RenderSpurious ==
    /\ rpc = "r_wait"
    /\ rpc' = "r_woken"
    /\ UNCHANGED << target, presented, globals, resolution, sessionBufs, handoff, mutex,
                    hpc, dpc, locals, env, history >>

\* realloc(render_local, n)
Realloc(buf, n) ==
    [size |-> n, px |-> [i \in Probes(n) |-> IF i \in DOMAIN buf.px THEN buf.px[i] ELSE 0]]

\* What a read of freed memory may return in every byte
GarbageBytes == {0, 170}

\* The memcpy of the take when cleanup has freed g_render_frames[frame_index]
\* in the meantime and the read faults: the process is killed.
RenderCopyFaults ==
    /\ rpc = "r_copy" /\ IsNull(g_render_frames[g_ready_index + 1])
    /\ hpc' = "killed" /\ dpc' = "killed" /\ rpc' = "killed"
    /\ UNCHANGED << target, presented, globals, resolution, sessionBufs, handoff, mutex,
                    locals, env, history >>

\* The take: frame_index, local_pixels, render_w and render_h are read, the
\* local buffer is grown if needed, the ready buffer is copied and
\* g_has_ready_frame is cleared, all with the mutex held.  When cleanup has
\* freed the ready buffer, the copy that does not fault reads what the freed
\* memory holds.
RenderCopy ==
    /\ rpc = "r_copy"
    /\ \/ /\ g_pixel_count > render_local.size
          /\ g_has_ready_frame' = FALSE
          /\ render_w' = g_frame_w /\ render_h' = g_frame_h
          /\ rpc' = "r_top"
          /\ UNCHANGED << render_local, taken >>
       \/ /\ IsNull(g_render_frames[g_ready_index + 1])
          /\ \E g \in GarbageBytes : render_local' = Fill(g_pixel_count, g)
          /\ g_has_ready_frame' = FALSE
          /\ render_w' = g_frame_w /\ render_h' = g_frame_h
          /\ taken' = [conn |-> pub, seq |-> g_ready_seq,
                        nth |-> IF taken.conn = pub THEN taken.nth + 1 ELSE 1,
                        stale |-> pubStale]
          /\ rpc' = "r_present"
       \/ /\ ~IsNull(g_render_frames[g_ready_index + 1])
          /\ render_local' =
                Memcpy(IF g_pixel_count > render_local.size
                       THEN Realloc(render_local, g_pixel_count) ELSE render_local,
                       g_render_frames[g_ready_index + 1], g_pixel_count)
          /\ g_has_ready_frame' = FALSE
          /\ render_w' = g_frame_w /\ render_h' = g_frame_h
          /\ taken' = [conn |-> pub, seq |-> g_ready_seq,
                        nth |-> IF taken.conn = pub THEN taken.nth + 1 ELSE 1,
                        stale |-> pubStale]
          /\ rpc' = "r_present"
    /\ mutex' = "free"
    /\ UNCHANGED << gaps, gl, g_overwritten_frames, target, pubStale, globals, resolution,
                    sessionBufs, g_render_frames, g_ready_index, g_ready_seq, hpc, dpc,
                    hfd, sock, cur, newres, env, acks, recon, callbacks, lastPkt,
                    firstAfterRes, pub, stopped, disorder >>

\* gl_teardown(): the context, surface, texture, buffer and program are
\* destroyed and g_gl_ready, g_gl_tex_w and g_gl_tex_h are cleared
gl_teardown ==
    /\ g_gl_ready' = FALSE /\ g_gl_tex_w' = 0 /\ g_gl_tex_h' = 0

\* Variant of HardwareWanted: gl_disabled is not consulted.
HardwareWantedAlways(disabled) == TRUE

\* "if (!gl_disabled)"
HardwareWanted(disabled) == ~disabled

\* "if (g_window && render_local)" and the hardware quad.  gl_init (when
\* g_gl_ready is 0) creates the context and a texture of g_frame_w x
\* g_frame_h, read without the mutex; gl_ensure_texture_size creates a
\* texture of render_w x render_h when the size differs; then the upload,
\* the draw and eglSwapBuffers.  init_ok, tex_ok and swap_ok are what EGL and
\* GL return.  Any failure runs gl_teardown and sets gl_disabled, and the
\* frame goes on to the CPU blit, as it does when gl_disabled is set already.
RenderPresent ==
    /\ rpc = "r_present"
    /\ IF g_window = 0 \/ IsNull(render_local)
       THEN rpc' = "r_top" /\ UNCHANGED gl
       ELSE IF ~HardwareWanted(gl_disabled)
       THEN rpc' = "r_blit" /\ UNCHANGED gl
       ELSE \E init_ok, tex_ok, swap_ok \in BOOLEAN :
              LET ready == g_gl_ready \/ init_ok
                  tex_w == IF g_gl_ready THEN g_gl_tex_w ELSE g_frame_w
                  tex_h == IF g_gl_ready THEN g_gl_tex_h ELSE g_frame_h
                  sized == (tex_w = render_w /\ tex_h = render_h) \/ tex_ok
              IN  IF ready /\ sized /\ swap_ok
                  THEN /\ g_gl_ready' = TRUE
                       /\ g_gl_tex_w' = render_w /\ g_gl_tex_h' = render_h
                       /\ gl_disabled' = gl_disabled
                       /\ rpc' = "r_top"
                  ELSE /\ gl_teardown
                       /\ gl_disabled' = TRUE
                       /\ rpc' = "r_blit"
    /\ UNCHANGED << target, render_w, render_h, pubStale, globals, resolution,
                    sessionBufs, handoff, mutex, hpc, dpc, locals, env, history >>

\* The CPU blit: "if (ANativeWindow_lock(g_window, &nbuf, NULL) == 0)" the
\* rows and columns of render_local that fit the surface are expanded to RGBX
\* and posted; when the lock fails nothing is drawn.
RenderBlit ==
    /\ rpc = "r_blit"
    /\ rpc' = "r_top"
    /\ UNCHANGED << target, presented, globals, resolution, sessionBufs, handoff, mutex,
                    hpc, dpc, locals, env, history >>

\* after the loop: gl_teardown(), free(render_local), return
RenderExit ==
    /\ rpc = "r_exit"
    /\ gl_teardown
    /\ render_local' = NullBuf
    /\ rpc' = "r_done"
    /\ UNCHANGED << gaps, target, render_w, render_h, pubStale, gl_disabled, globals,
                    resolution, sessionBufs, handoff, mutex, hpc, dpc, hfd, sock, cur,
                    newres, env, history >>

\* ------------------------------------------------------------ specification
HostStep ==
    \/ StartCall \/ Start \/ StartWhileRunning
    \/ StopBegin \/ StopBroadcast \/ StopShutdown \/ StopClose
    \/ StopJoinDecode \/ StopJoinRender \/ StopRelease
DecodeStep ==
    \/ DecodeAlloc \/ DecodeOuter \/ ConnectFails \/ ConnectSucceeds \/ DecodeInner
    \/ RecvUnblocked \/ PeerCloses \/ ReadBadMagic \/ ReadCommand \/ ReadResolution
    \/ DecodeRealloc \/ ReadFrame \/ DecodeAck \/ DecodePublish \/ DecodeStats
    \/ DecodeClose
    \/ DecodeWhite \/ DecodeNotify \/ DecodeSleep
    \/ DecodeCleanup \/ DecodeUnready \/ DecodeSignal
RenderStep ==
    \/ RenderLock \/ RenderCheck \/ RenderWait \/ RenderSpurious
    \/ RenderCopyFaults \/ RenderCopy \/ RenderPresent \/ RenderBlit \/ RenderExit
Next == HostStep \/ DecodeStep \/ RenderStep
Spec == Init /\ [][Next]_vars

\* Thread steps the scheduler cannot postpone for ever.  Packets, the peer's
\* close and spurious wakeups are the environment's and carry no fairness;
\* recv returns once the socket is shut down (RecvUnblocked), connect and
\* sleep return, and a thread waiting for g_frame_mutex gets it.
StopProgress ==
    StopBroadcast \/ StopShutdown \/ StopClose \/ StopJoinDecode \/ StopJoinRender
        \/ StopRelease
DecodeProgress ==
    DecodeAlloc \/ DecodeOuter \/ ConnectFails \/ ConnectSucceeds \/ DecodeInner
        \/ RecvUnblocked \/ DecodeAck \/ DecodeClose \/ DecodeNotify \/ DecodeSleep
        \/ DecodeCleanup \/ DecodeSignal
DecodeLocked ==
    DecodeRealloc \/ DecodePublish \/ DecodeStats \/ DecodeWhite \/ DecodeUnready
RenderProgress ==
    RenderCheck \/ RenderWait \/ RenderCopy \/ RenderPresent \/ RenderBlit \/ RenderExit
FairSpec ==
    /\ Spec
    /\ WF_vars(StopProgress)
    /\ WF_vars(DecodeProgress) /\ SF_vars(DecodeLocked)
    /\ WF_vars(RenderProgress) /\ SF_vars(RenderLock)

\* ------------------------------------------------- the sequence bookkeeping
\* The bookkeeping of lines 736-739 and 818-823 on its own, with more
\* sequence numbers than the session above is sent: 0..3, 1000..1002,
\* 2^31 + 1, 2^31 + 2 and 2^32 - 1.
GapSeqs ==
    {<< 0, 0 >>, << 0, 1 >>, << 0, 2 >>, << 0, 3 >>, << 0, 1000 >>, << 0, 1001 >>,
     << 0, 1002 >>, << 32768, 1 >>, << 32768, 2 >>, << 65535, 65535 >>}
\* headers are read while dropped_frames is below this value
MaxDropped == 12

\* a connection is established: "int dropped_frames = 0; ... uint32_t
\* last_seq = 0; int has_last_seq = 0;"
GapConnect ==
    /\ dropped_frames' = 0 /\ last_seq' = << 0, 0 >> /\ has_last_seq' = FALSE
    /\ UNCHANGED << globals, resolution, sessionBufs, handoff, mutex, pcs, hfd, sock, cur,
                    newres, render_local, env, history, target, presented >>

\* a frame header with sequence number seq has been read
GapHeader ==
    /\ dropped_frames < MaxDropped
    /\ \E seq \in GapSeqs :
        /\ dropped_frames' = DroppedAfter(dropped_frames, has_last_seq, last_seq, seq)
        /\ last_seq' = seq /\ has_last_seq' = TRUE
    /\ UNCHANGED << globals, resolution, sessionBufs, handoff, mutex, pcs, hfd, sock, cur,
                    newres, render_local, env, history, target, presented >>

GapNext == GapConnect \/ GapHeader
GapSpec == Init /\ [][GapNext]_vars

\* ------------------------------------------------------------------ properties
IsPrefix(s, t) == Len(s) <= Len(t) /\ \A i \in 1..Len(s) : s[i] = t[i]

\* the sequence numbers the server reads from the acks written on the
\* connection, and the reconstructed packets for which send_ack has been called
Acked == [i \in 1..Len(acks) |-> AckSeq(acks[i])]
AckDue == IF dpc = "d_ack" THEN SubSeq(recon, 1, Len(recon) - 1) ELSE recon

\* the session thread is inside the inner loop of a connection, whose socket
\* is sock
InConnection ==
    dpc \in {"d_inner", "d_read", "d_realloc", "d_ack", "d_publish", "d_stats"}

\* the step that handles a frame packet
FrameStep == dpc = "d_read" /\ lastPkt'.kind = "frame"

\* C1: a keyframe whose payload is read and decompresses to exactly W*H
\* bytes k leaves C[i] = k[i] at every offset i, whatever C held before.
C1_KeyframeReplaces ==
    [][ (FrameStep /\ lastPkt'.key /\ lastPkt'.read /\ lastPkt'.n = g_pixel_count)
        => /\ g_current_frame'.size = g_pixel_count
           /\ \A i \in Probes(g_pixel_count) :
                g_current_frame'.px[i] = PatByte(lastPkt'.pat, i) ]_vars

\* a second reconstructed packet is a keyframe, and the frame published
\* before it (the content C held) is not zero
C1_Witness ==
    /\ dpc = "d_ack" /\ lastPkt.fate = "key" /\ Len(recon) = 2
    /\ g_has_ready_frame /\ g_render_frames[g_ready_index + 1].px[0] # 0

\* C2: a non-keyframe whose payload is read and decompresses to exactly W*H
\* bytes d leaves C[i] = C0[i] XOR d[i] at every offset i, for every
\* compressed payload length.
C2_DeltaXorsEveryLength ==
    [][ (FrameStep /\ ~lastPkt'.key /\ lastPkt'.read /\ lastPkt'.n = g_pixel_count)
        => \A i \in Probes(g_pixel_count) :
                g_current_frame'.px[i] =
                    Xor8(g_current_frame.px[i], PatByte(lastPkt'.pat, i)) ]_vars

\* C3 as stated: on each connection the acks written are exactly, in order,
\* the sequence numbers of the reconstructed packets.
C3_AcksEqualReconstructed == Acked = AckDue

\* C3: on each connection the acks written are, in order, a prefix of the
\* sequence numbers of the reconstructed packets, one each; acks are missing
\* only when the socket is no longer open for writing (shut down or closed
\* by stop, or reset by the peer) when send_ack runs.
C3_AcksPrefixOfReconstructed ==
    /\ IsPrefix(Acked, AckDue)
    /\ (Acked # AckDue /\ InConnection => ~FdOpen(sock))

\* two packets with different sequence numbers were reconstructed and acked
C3_Witness ==
    /\ Len(acks) = 2 /\ Acked = recon /\ recon[1] # recon[2] /\ dpc = "d_publish"

\* C4: once stop() has been called it eventually returns.
C4_StopReturns == (hpc = "h_bcast") ~> (hpc = "idle")

\* C5: after stop() has returned neither thread is alive, no socket opened
\* by the session is still open, and the surface has been released.
C5_AfterStop ==
    stopped =>
        /\ dpc = "d_done" /\ rpc = "r_done"
        /\ \A fd \in DOMAIN fdState : fdState[fd] = "closed"
        /\ g_window = 0

\* stop() has returned from a session that had connected
C5_Witness == stopped /\ Len(fdState) >= 1 /\ callbacks # << >>

\* a successful take() by the presenter of a frame published on the same
\* connection as the frame it took before
TakeStep ==
    /\ rpc = "r_copy" /\ rpc' = "r_present"
    /\ taken.conn # 0 /\ taken'.conn = taken.conn

\* C6 as stated: within one connection the ready_seq of successive takes is
\* non-decreasing.
C6_ReadySeqMonotone == [][ TakeStep => Leq32(taken.seq, taken'.seq) ]_vars

\* C6: within one connection on which the accepted frames' sequence numbers
\* arrive in non-decreasing order and g_ready_seq + 1 does not wrap past
\* 2^32 - 1, the ready_seq of successive takes is non-decreasing.
C6_ReadySeqMonotoneInOrder ==
    [][ (TakeStep /\ taken'.conn \notin disorder')
        => Leq32(taken.seq, taken'.seq) ]_vars

\* the presenter took a second frame of a connection that is in order
C6_Witness == taken.nth >= 2 /\ taken.conn \notin disorder

\* C7: a frame packet's payload is read only if its length is at most
\* W*H + 256 for the resolution in force; a larger one is rejected: its
\* payload is not read, C is not modified, no ack is sent, nothing is
\* published and the connection ends.
C7_OversizeRejected ==
    [][ FrameStep =>
        /\ lastPkt'.read => lastPkt'.len <= g_frame_w * g_frame_h + COMPRESSED_SLACK
        /\ lastPkt'.len > g_frame_w * g_frame_h + COMPRESSED_SLACK
            => /\ ~lastPkt'.read
               /\ g_current_frame' = g_current_frame
               /\ acks' = acks /\ recon' = recon
               /\ UNCHANGED << handoff, pub >>
               /\ dpc' = "d_close" ]_vars

\* after RESOLUTION(17, 17) a packet of 4000 bytes, which the default
\* resolution would admit, is rejected
C7_Witness ==
    /\ dpc = "d_close" /\ lastPkt.kind = "frame" /\ ~lastPkt.read
    /\ << g_frame_w, g_frame_h >> \in ResCmds /\ lastPkt.len = 4000

\* C8: a non-keyframe whose payload is read and does not decompress to
\* exactly W*H bytes (a payload of length 0 included) is discarded: C is
\* unchanged, no ack is sent, nothing is published and the connection stays
\* open.
C8_MismatchedDeltaDiscarded ==
    [][ (FrameStep /\ ~lastPkt'.key /\ lastPkt'.read /\ lastPkt'.n # g_pixel_count)
        => /\ g_current_frame' = g_current_frame
           /\ acks' = acks /\ recon' = recon
           /\ UNCHANGED << handoff, pub, g_sock, fdState >>
           /\ dpc' = "d_inner" ]_vars

\* a non-keyframe of length 0 was discarded and the loop goes on
C8_Witness ==
    /\ dpc = "d_inner" /\ lastPkt.kind = "frame" /\ ~lastPkt.key
    /\ lastPkt.len = 0 /\ lastPkt.read /\ FdOpen(sock)

\* C9: the first frame after an accepted RESOLUTION, if it is a
\* non-keyframe, is rejected and C is unchanged.
C9_DeltaAfterResolutionRejected ==
    [][ (FrameStep /\ ~lastPkt'.key /\ lastPkt'.afterRes)
        => dpc' # "d_ack" /\ g_current_frame' = g_current_frame ]_vars

\* the stream-fatal conditions: a read that returns <= 0, magic[0] # 0xDA,
\* an unknown magic[1], a keyframe that does not decompress to W*H bytes
Fatal ==
    \/ lastPkt.kind \in {"eof", "badmagic", "unknown"}
    \/ lastPkt.kind = "frame" /\ lastPkt.key /\ lastPkt.read
        /\ lastPkt.n # g_pixel_count
Attempted == dpc = "d_connect" \/ (dpc = "d_sleep" /\ sock = -1)

\* C10: a stream-fatal condition ends the connection without an ack for the
\* offending packet: the socket is closed, Disconnected is notified, and
\* after the sleep a new connection is attempted if the core still runs.
C10_FatalEndsConnection ==
    /\ [](Fatal => ~InConnection)
    /\ [][ (dpc = "d_read" /\ dpc' = "d_close") => acks' = acks ]_vars
    /\ [](Fatal /\ dpc \in {"d_white", "d_notify", "d_sleep"} /\ sock # -1
            => g_sock = -1 /\ fdState[sock] = "closed")
    /\ [](Fatal /\ dpc = "d_sleep"
            => callbacks # << >> /\ ~callbacks[Len(callbacks)])
    /\ [][ (dpc = "d_sleep" /\ dpc' # dpc) => dpc' = "d_outer" ]_vars
    /\ [][ (dpc = "d_outer" /\ dpc' # dpc /\ g_running) => Attempted' ]_vars

\* a keyframe that does not decompress to W*H bytes ended the connection and
\* the thread is in its sleep
C10_Witness ==
    /\ dpc = "d_sleep" /\ lastPkt.kind = "frame" /\ lastPkt.key
    /\ lastPkt.read /\ lastPkt.n # g_pixel_count

\* the steps at which a connection is established and at which its end is
\* reported
ConnectedStep == dpc = "d_connect" /\ dpc' = "d_inner"
NotifyStep == dpc = "d_notify" /\ dpc' = "d_sleep"

\* C11: the onConnectionState callbacks alternate, starting with true: every
\* successful connect delivers exactly one true, every end of a connection
\* exactly one false, and nothing else delivers a callback.
C11_CallbacksAlternate ==
    /\ [](\A i \in 1..Len(callbacks) : callbacks[i] = (i % 2 = 1))
    /\ [][ ConnectedStep => callbacks' = Append(callbacks, TRUE) ]_vars
    /\ [][ NotifyStep => callbacks' = Append(callbacks, FALSE) ]_vars
    /\ [][ callbacks' # callbacks => ConnectedStep \/ NotifyStep ]_vars

\* two connections were established and ended, one connect failed in between
C11_Witness ==
    /\ Len(callbacks) = 4 /\ Len(fdState) = 3 /\ dpc = "d_sleep"

\* the step that handles a RESOLUTION command, the step that applies an
\* accepted one, and the bounds the command's fields must satisfy
ResStep == dpc = "d_read" /\ lastPkt'.kind = "res"
ApplyStep == dpc = "d_realloc" /\ dpc' = "d_inner"
InBounds(w, h) == 1 <= w /\ w <= 4096 /\ 1 <= h /\ h <= 4096

\* C12 as stated: a RESOLUTION command changes the resolution if and only if
\* both of its fields are between 1 and 4096.
C12_ChangesIffInBounds ==
    [][ ResStep => ((dpc' = "d_realloc") <=> InBounds(lastPkt'.w, lastPkt'.h)) ]_vars

\* C12, amended: a RESOLUTION command (w, h) changes the resolution if and
\* only if 1 <= w, h <= 4096 and the five allocations succeed; the change
\* installs w, h, w*h and w*h + 256 and gives (w, h) to the geometry setter.
\* A command that is not applied leaves W, H, pixel_count, max_compressed,
\* C, the handoff slot and the surface geometry as they were, and the next
\* packet is read from the same connection.
C12_ChangesIffInBoundsAndAllocated ==
    /\ [][ ResStep =>
            /\ (dpc' = "d_realloc")
                  <=> (InBounds(lastPkt'.w, lastPkt'.h) /\ lastPkt'.fate # "nomem")
            /\ UNCHANGED << resolution, g_current_frame, handoff, geometry, sock,
                            fdState, acks >>
            /\ dpc' \in {"d_realloc", "d_inner"} ]_vars
    /\ [][ ApplyStep =>
            /\ g_frame_w' = lastPkt.w /\ g_frame_h' = lastPkt.h
            /\ g_pixel_count' = lastPkt.w * lastPkt.h
            /\ g_max_compressed' = lastPkt.w * lastPkt.h + 256
            /\ geometry' = << lastPkt.w, lastPkt.h >>
            /\ UNCHANGED << sock, fdState >> ]_vars
    /\ [][ resolution' # resolution => ApplyStep ]_vars
    /\ [][ (geometry' # geometry /\ g_running) => ApplyStep ]_vars

\* a command with a field of 4097 was rejected after 4096 x 4096 had been
\* installed, and the connection goes on
C12_Witness ==
    /\ lastPkt.kind = "res" /\ lastPkt.fate = "invalid"
    /\ 4097 \in {lastPkt.w, lastPkt.h}
    /\ g_frame_w = 4096 /\ g_frame_h = 4096 /\ geometry = << 4096, 4096 >>
    /\ dpc = "d_inner" /\ FdOpen(sock)

\* the step that handles a command other than RESOLUTION
CmdStep == dpc = "d_read" /\ lastPkt'.kind = "cmd"

\* C13: for a command packet whose cmd byte is not 0x04, one value byte is
\* consumed after the magic and the cmd byte; setBrightness(value) is called
\* once if cmd = 0x01, setWarmth(value) once if cmd = 0x02, and nothing is
\* called for any other cmd; C, the handoff slot and the resolution are
\* unchanged, no ack is sent, and the next packet is read from the same
\* connection.
C13_OtherCommands ==
    [][ CmdStep =>
        /\ lastPkt'.cmd # 4
        /\ lastPkt'.consumed - 3 = 1
        /\ lastPkt'.calls =
              IF lastPkt'.cmd = 1 THEN << << "setBrightness", lastPkt'.value >> >>
              ELSE IF lastPkt'.cmd = 2 THEN << << "setWarmth", lastPkt'.value >> >>
              ELSE << >>
        /\ UNCHANGED << g_current_frame, handoff, resolution, geometry, acks, sock,
                        fdState >>
        /\ dpc' = "d_inner" /\ FdOpen(sock) ]_vars

\* a command 0x09 was consumed without a callback and the connection goes on
C13_Witness ==
    /\ lastPkt.kind = "cmd" /\ lastPkt.cmd = 9 /\ lastPkt.calls = << >>
    /\ lastPkt.consumed = 4 /\ dpc = "d_inner" /\ FdOpen(sock)

\* the step in which a call of nativeStart returns
StartReturns == hpc = "h_start" /\ hpc' = "idle"

\* C14: a call of start() while the core is running spawns no thread and
\* leaves the surface handle, the host, the port, the reference to the host
\* activity, the buffers and the handoff state as they were.
C14_StartWhileRunningNoOp ==
    [][ (StartReturns /\ g_running) =>
        /\ dpc' = dpc /\ rpc' = rpc
        /\ UNCHANGED << g_running, g_window, g_activity, g_host, g_port, geometry,
                        g_sock, resolution, sessionBufs, handoff, render_local >> ]_vars

\* start() was called with another address while a connection was open and
\* a frame was ready, and returned
C14_Witness ==
    /\ startIgnored /\ hpc = "idle" /\ g_running
    /\ g_host = "10.0.0.2" /\ g_port = 8888
    /\ FdOpen(sock) /\ g_has_ready_frame

\* the step that handles a packet whose magic bytes and, for a frame, whose
\* length are valid, and the positions from which the loop goes on with the
\* same connection
PacketStep ==
    /\ dpc = "d_read"
    /\ \/ lastPkt'.kind \in {"cmd", "res"}
       \/ lastPkt'.kind = "frame" /\ lastPkt'.sent[3] <= g_frame_w * g_frame_h + 256
GoesOn == dpc' \in {"d_inner", "d_realloc", "d_ack"}

\* C15 as stated: of a stream of valid packets the read loop recognises
\* every packet: each valid packet is read with the fields it was written
\* with and to its last byte, and the loop goes on to the byte after it.
C15_EveryPacketRecognised ==
    [][ PacketStep =>
        /\ lastPkt'.got = lastPkt'.sent
        /\ lastPkt'.consumed = lastPkt'.wire
        /\ GoesOn ]_vars

\* C15, amended: every valid packet the read loop reads is read with the
\* fields it was written with and consumed to its last byte, so the next
\* read starts at the next packet's magic; the loop goes on with the next
\* packet unless the packet is a keyframe whose payload does not decompress
\* to W*H bytes, which ends the connection.
C15_PacketsReadWhole ==
    [][ PacketStep =>
        /\ lastPkt'.got = lastPkt'.sent
        /\ lastPkt'.consumed = lastPkt'.wire
        /\ GoesOn <=> ~(lastPkt'.kind = "frame" /\ lastPkt'.key
                         /\ lastPkt'.n # g_pixel_count) ]_vars

\* a keyframe with a payload of 4000 bytes and the largest sequence number
\* was read whole, and its ack is due
C15_Witness ==
    /\ lastPkt.kind = "frame" /\ lastPkt.read
    /\ lastPkt.got = << 1, << 65535, 65535 >>, 4000 >>
    /\ lastPkt.consumed = 4011
    /\ dpc = "d_ack"

\* the presenter's take of a frame, and the take of a frame published by
\* the connection the session thread is still reading from
AnyTake == rpc = "r_copy" /\ rpc' = "r_present"
TakeOfOpenConnection == AnyTake /\ InConnection /\ taken'.conn = sock
WasAcked(seq) == \E i \in 1..Len(Acked) : Acked[i] = seq

C17_HandoffOnlyUnderMutex ==
    [][ (rpc = "r_copy" /\ mutex = "r" /\ rpc' = rpc) => UNCHANGED handoff ]_vars

\* C18: no thread other than the session thread closes a socket: the stop
\* path only shuts it down, and every step in which a descriptor becomes
\* closed is a step of the session thread.
C18_OnlySessionThreadCloses ==
    [][ (\E fd \in DOMAIN fdState : fdState[fd] # "closed" /\ fdState'[fd] = "closed")
        => dpc' # dpc ]_vars

\* the step in which the presenter finishes presenting the frame it took
PresentStep == rpc \in {"r_present", "r_blit"} /\ rpc' = "r_top"

\* C19 as stated, last part: a frame that was ready before a resolution
\* change is never presented after it.
C19_ReadyBeforeChangeNeverPresented == [][ PresentStep => ~taken.stale ]_vars

\* C19, amended: the width, height and pixel count the presenter reads for
\* one take are those of one resolution, the ready buffer it copies from
\* (unless cleanup has freed it) was allocated for that resolution, and the
\* frame it takes was published after the last resolution change; what it
\* took keeps its own width and height until it has been presented.
C19_TakeOfOneResolution ==
    /\ [](g_pixel_count = g_frame_w * g_frame_h)
    /\ [][ AnyTake =>
            /\ render_w' = g_frame_w /\ render_h' = g_frame_h
            /\ render_local'.size >= render_w' * render_h'
            /\ IsNull(g_render_frames[g_ready_index + 1])
                  \/ g_render_frames[g_ready_index + 1].size = g_frame_w * g_frame_h
            /\ ~pubStale ]_vars
    /\ [][ (rpc \in {"r_present", "r_blit"} /\ rpc' # "killed")
            => UNCHANGED << render_w, render_h, render_local >> ]_vars

\* the presenter took a 17 x 17 frame after the resolution had been changed
\* from the default to 17 x 17
C19_Witness ==
    /\ rpc = "r_present" /\ render_w = 17 /\ render_h = 17
    /\ render_local.size >= 289 /\ g_frame_w = 17 /\ ~taken.stale

\* C20: every frame the presenter obtains from a take is a complete copy of
\* the most recently published frame, the content of the ready buffer.
C20_TakeCopiesLatestPublish ==
    [][ AnyTake =>
        /\ ~IsNull(g_render_frames[g_ready_index + 1])
        /\ \A i \in Probes(g_pixel_count) :
              render_local'.px[i] = g_render_frames[g_ready_index + 1].px[i] ]_vars

\* publish_frame copies a frame into the write buffer and flips
\* g_ready_index (the per-frame publish and the white frame of a closing
\* connection)
PublishStep == dpc \in {"d_publish", "d_white"} /\ g_ready_index' # g_ready_index

\* C21: every frame dropped at the handoff is counted: a published frame
\* that is pending (g_has_ready_frame) stops being pending only in the
\* presenter's take, or by being overwritten by the next publish, which
\* counts it in g_overwritten_frames; so the frames published in a
\* statistics window are the frames taken, the increase of the counter, and
\* the one still pending.
C21_EveryDropCounted ==
    /\ [][ PublishStep =>
            /\ g_has_ready_frame'
            /\ g_overwritten_frames' =
                  g_overwritten_frames + (IF g_has_ready_frame THEN 1 ELSE 0) ]_vars
    /\ [][ (g_has_ready_frame /\ ~g_has_ready_frame' /\ g_running)
            => rpc = "r_copy" ]_vars

\* C21, as the code has it: a publish leaves a frame pending and adds one to
\* g_overwritten_frames exactly when a frame was pending already; the
\* counter changes on nothing else but the reset at the end of a statistics
\* window; a pending frame stops being pending by a take, and also, without
\* being counted, when a resolution change is applied, when the presenter
\* cannot grow its local buffer, and at cleanup.
C21_DropsCountedOrDiscarded ==
    /\ [][ PublishStep =>
            /\ g_has_ready_frame'
            /\ g_overwritten_frames' =
                  g_overwritten_frames + (IF g_has_ready_frame THEN 1 ELSE 0) ]_vars
    /\ [][ g_overwritten_frames' # g_overwritten_frames =>
            \/ PublishStep /\ g_has_ready_frame
            \/ dpc = "d_stats" /\ g_overwritten_frames' = 0 ]_vars
    /\ [][ (g_has_ready_frame /\ ~g_has_ready_frame') =>
            \/ AnyTake
            \/ ApplyStep
            \/ rpc = "r_copy" /\ rpc' = "r_top"
            \/ dpc = "d_unready" ]_vars

\* a second frame was published while the first was still pending, and the
\* first has been counted
C21_Witness ==
    /\ g_overwritten_frames = 1 /\ g_has_ready_frame
    /\ dpc \in {"d_inner", "d_stats"} /\ pub = sock /\ Len(recon) = 2

\* C22: when one of the five allocations of a resolution change fails, the
\* change has no effect: g_current_frame (pointer and contents), the
\* compressed buffer, the scratch buffer, both handoff buffers,
\* g_ready_index, g_has_ready_frame, the width, height, g_pixel_count and
\* g_max_compressed are unchanged, ANativeWindow_setBuffersGeometry is not
\* called, and the connection goes on to its next packet with its socket open.
C22_FailedAllocationNoEffect ==
    [][ (dpc = "d_read" /\ lastPkt'.kind = "res" /\ lastPkt'.fate = "nomem") =>
        /\ UNCHANGED << g_current_frame, g_compressed_buf, decompress_buf,
                        g_render_frames, g_ready_index, g_has_ready_frame,
                        g_frame_w, g_frame_h, g_pixel_count, g_max_compressed,
                        geometry, g_sock, fdState >>
        /\ dpc' = "d_inner" ]_vars

\* after an accepted change to 17 x 17, a change to 4096 x 4096 failed to
\* allocate and the connection continues at 17 x 17
C22_Witness ==
    /\ lastPkt.kind = "res" /\ lastPkt.fate = "nomem" /\ lastPkt.w = 4096
    /\ dpc = "d_inner" /\ g_frame_w = 17 /\ g_pixel_count = 289
    /\ g_current_frame.size = 289 /\ geometry = << 17, 17 >> /\ FdOpen(sock)

\* the session thread is between its successful startup allocation and its
\* cleanup
SessionAllocated ==
    dpc \in {"d_outer", "d_connect", "d_sleep", "d_inner", "d_read", "d_realloc",
             "d_ack", "d_publish", "d_stats", "d_close", "d_white", "d_notify"}

\* C23: from the successful startup allocation to the session thread's
\* cleanup the buffer sizes agree with the resolution: g_current_frame, the
\* decompression scratch and both handoff buffers hold g_pixel_count =
\* g_frame_w * g_frame_h bytes, the compressed buffer holds g_max_compressed
\* = g_frame_w * g_frame_h + 256 bytes, at most 4096 * 4096 + 256 and so a
\* 32-bit value; a payload that was
\* read fits the compressed buffer and a block that was decompressed fits
\* the scratch buffer.
C23_BufferSizesAgree ==
    SessionAllocated =>
        /\ g_pixel_count = g_frame_w * g_frame_h
        /\ g_current_frame.size = g_pixel_count
        /\ decompress_buf = g_pixel_count
        /\ g_render_frames[1].size = g_pixel_count
        /\ g_render_frames[2].size = g_pixel_count
        /\ g_max_compressed = g_frame_w * g_frame_h + COMPRESSED_SLACK
        /\ g_max_compressed <= MAX_DIM * MAX_DIM + COMPRESSED_SLACK
        /\ g_compressed_buf = g_max_compressed
        /\ (lastPkt.kind = "frame" /\ lastPkt.read) => lastPkt.len <= g_compressed_buf
        /\ (lastPkt.kind = "frame" /\ lastPkt.fate \in {"key", "delta", "skip"})
              => lastPkt.n <= decompress_buf

\* a keyframe of 289 bytes was reconstructed and published after the
\* resolution had been changed to 17 x 17
C23_Witness ==
    /\ dpc = "d_inner" /\ g_frame_w = 17 /\ g_frame_h = 17
    /\ lastPkt.kind = "frame" /\ lastPkt.fate = "key" /\ lastPkt.n = 289
    /\ g_current_frame.size = 289 /\ g_compressed_buf = 545 /\ decompress_buf = 289
    /\ g_has_ready_frame /\ g_render_frames[g_ready_index + 1].size = 289

\* every byte of the buffer is 0xFF
AllWhite(buf) == \A i \in DOMAIN buf.px : buf.px[i] = 255

\* C24: at every end of a connection the socket is closed, then
\* g_current_frame is filled with 0xFF and published, and only then is
\* Disconnected notified; so whenever the host receives Disconnected the
\* most recently published frame is all 0xFF at the current resolution.
C24_WhiteBeforeDisconnected ==
    /\ [][ (InConnection /\ ~InConnection') => dpc' \in {"d_close", "killed"} ]_vars
    /\ [][ (dpc = "d_close" /\ dpc' # dpc)
            => dpc' = "d_white" \/ dpc' = "killed" ]_vars
    /\ [][ (dpc = "d_white" /\ dpc' # dpc /\ dpc' # "killed") =>
            /\ g_sock = -1 /\ fdState[sock] = "closed"
            /\ PublishStep /\ dpc' = "d_notify"
            /\ AllWhite(g_current_frame') ]_vars
    /\ [][ (callbacks' # callbacks /\ ~callbacks'[Len(callbacks')]) => NotifyStep ]_vars
    /\ [][ NotifyStep =>
            /\ g_sock = -1 /\ fdState[sock] = "closed"
            /\ g_render_frames[g_ready_index + 1].size = g_frame_w * g_frame_h
            /\ g_render_frames[g_ready_index + 1].size = g_pixel_count
            /\ AllWhite(g_render_frames[g_ready_index + 1])
            /\ pub = sock ]_vars

\* a connection on which a keyframe had been reconstructed has ended: the
\* host has received Disconnected and the white frame is the published one
C24_Witness ==
    /\ dpc = "d_sleep" /\ sock # -1 /\ recon # << >>
    /\ callbacks # << >> /\ ~callbacks[Len(callbacks)]
    /\ AllWhite(g_render_frames[g_ready_index + 1])
    /\ g_ready_seq = Inc32(recon[Len(recon)])

\* C25: when a startup allocation fails the core does not remain running:
\* once the session thread has ended, g_running is false and the presenter
\* is not blocked waiting for a frame.
C25_StartupFailureStopsCore ==
    dpc = "d_done" => ~g_running /\ rpc # "r_wait"

\* C26: every session start, a start after a stop included, begins at the
\* default resolution: when the session thread has made its startup
\* allocation the width is 1024, the height 768, g_pixel_count 786432 and
\* g_max_compressed 786688, g_current_frame is all zero, both handoff
\* buffers are all 0xFF and no frame is pending.
C26_SessionStartsAtDefault ==
    [][ (dpc = "d_alloc" /\ dpc' = "d_outer") =>
        /\ g_frame_w' = DEFAULT_FRAME_W /\ g_frame_h' = DEFAULT_FRAME_H
        /\ g_pixel_count' = DEFAULT_FRAME_W * DEFAULT_FRAME_H
        /\ g_max_compressed' = DEFAULT_FRAME_W * DEFAULT_FRAME_H + COMPRESSED_SLACK
        /\ g_current_frame'.size = g_pixel_count'
        /\ \A i \in DOMAIN g_current_frame'.px : g_current_frame'.px[i] = 0
        /\ AllWhite(g_render_frames'[1]) /\ AllWhite(g_render_frames'[2])
        /\ ~g_has_ready_frame' ]_vars

\* C27: within one session the presenter's back-end moves one way only:
\* a hardware init, texture-resize or swap failure tears the hardware
\* context down and sets gl_disabled, and the frame being presented goes on
\* to the CPU blit unchanged; from then on, until the session's presenter
\* ends, gl_disabled stays set, the context stays torn down, and every frame
\* taken goes to the CPU blit with no hardware init or present.
C27_BackEndOneWay ==
    /\ [](gl_disabled => ~g_gl_ready /\ g_gl_tex_w = 0 /\ g_gl_tex_h = 0)
    /\ [][ (gl_disabled /\ ~gl_disabled') => (hpc = "h_start" /\ rpc' = "r_top") ]_vars
    /\ [][ (~gl_disabled /\ gl_disabled') =>
            /\ rpc = "r_present" /\ rpc' = "r_blit"
            /\ ~g_gl_ready'
            /\ UNCHANGED << render_local, render_w, render_h >> ]_vars
    /\ [][ (gl_disabled /\ rpc = "r_present" /\ rpc' # rpc /\ rpc' # "killed") =>
            /\ rpc' = "r_blit" \/ (g_window = 0 \/ IsNull(render_local))
            /\ UNCHANGED << gl, render_local, render_w, render_h >> ]_vars
    /\ [][ (~g_gl_ready /\ g_gl_ready') => (rpc = "r_present" /\ ~gl_disabled) ]_vars
    /\ [][ (rpc = "r_blit" /\ rpc' # rpc) => rpc' \in {"r_top", "killed"} ]_vars

\* the hardware back-end failed on the first frame of a connection; the
\* second frame taken on it is in the CPU blit
C27_Witness ==
    /\ rpc = "r_blit" /\ gl_disabled /\ ~g_gl_ready
    /\ taken.conn = sock /\ taken.nth = 2 /\ Len(recon) = 2

\* a non-negative number below 2^31 as a 32-bit value
Word32(n) == << n \div 65536, n % 65536 >>

\* a frame header is read on a connection on which one was read before
LaterHeader ==
    /\ has_last_seq /\ has_last_seq'
    /\ << last_seq, dropped_frames >>' # << last_seq, dropped_frames >>

\* C28: for every frame header after the first on a connection, if seq >
\* last_seq + 1 (32-bit unsigned) the dropped-frame counter increases by
\* exactly seq - last_seq - 1, for every size of gap, and otherwise it is
\* unchanged.
C28_EveryGapCounted ==
    [][ LaterHeader =>
        LET seq == last_seq'
            next == Inc32(last_seq)
            gap == Sub32(Sub32(seq, last_seq), << 0, 1 >>)
        IN  Word32(dropped_frames') =
               IF seq # next /\ Leq32(next, seq)
               THEN Add32(Word32(dropped_frames), gap)
               ELSE Word32(dropped_frames) ]_vars

\* C28, as the code has it: a frame header after the first on a connection
\* adds seq - last_seq - 1 (32-bit unsigned) to the dropped-frame counter
\* when that gap is between 1 and 999, and leaves the counter unchanged
\* otherwise: when seq = last_seq + 1, and when the gap is 1000 or more;
\* the counter starts at 0 and the first header leaves it there.
C28_GapsBelowLimitCounted ==
    /\ [][ LaterHeader =>
            \/ /\ \E g \in 1..(GAP_LIMIT - 1) :
                      /\ last_seq' = Add32(last_seq, Word32(g + 1))
                      /\ dropped_frames' = dropped_frames + g
            \/ /\ \A g \in 1..(GAP_LIMIT - 1) : last_seq' # Add32(last_seq, Word32(g + 1))
               /\ dropped_frames' = dropped_frames ]_vars
    /\ [][ ~has_last_seq' => dropped_frames' = 0 ]_vars
    /\ [][ (~has_last_seq /\ has_last_seq') => dropped_frames' = dropped_frames ]_vars

\* the header 1002 has been read and gaps below 1000 before it have added
\* up to 999 dropped frames (headers 1, 3, 1002: gaps of 1 and 998)
C28_Witness ==
    /\ has_last_seq /\ last_seq = << 0, 1002 >> /\ dropped_frames = 999

\* the session thread has left its loops: cleanup and after
SessionEnded == dpc \in {"d_cleanup", "d_unready", "d_signal", "d_done"}

\* a socket or connect attempt has failed or a connection has been lost, and
\* the thread is on its way to the sleep or in it
Retrying == dpc \in {"d_close", "d_white", "d_notify", "d_sleep"}

CanGoOn ==
    /\ dpc = "d_close" => ENABLED DecodeClose
    /\ dpc = "d_white" =>
          \/ ENABLED DecodeWhite
          \/ mutex = "r" /\ ENABLED (RenderCheck \/ RenderWait \/ RenderCopy)
    /\ dpc = "d_notify" => ENABLED DecodeNotify
    /\ dpc = "d_sleep" => ENABLED DecodeSleep
    /\ dpc = "d_outer" => ENABLED DecodeOuter
    /\ dpc = "d_connect" => ENABLED (ConnectFails \/ ConnectSucceeds)

====
